---- MODULE Spec2Model ----
(***************************************************************************)
(* Model of CVideoRecorder (src/VideoRecorder.cpp): the task queue, the    *)
(* worker loop, the frame request protocol, pacing and the encode session. *)
(*                                                                         *)
(* Threads: one caller thread making the public calls (Screenshot,         *)
(* SampleFrame, StartRecord, StopRecord); the producer, which resolves the *)
(* frame handles it was given (Ready, Cancel) at any time after the        *)
(* request callback created them; the worker thread running Process().     *)
(* Everything done under mtx is one atomic step.  SampleFrame takes the    *)
(* lock only after the request callback has returned, so it is two steps.  *)
(* The worker pops under the lock and executes the task with the lock      *)
(* released, so pop and execution are two steps.                           *)
(*                                                                         *)
(* A submission can throw std::exception (std::bad_alloc while the task is *)
(* made or queued, or whatever the request callback throws); the public    *)
(* methods catch it, call Error() and try once more.  The destructor runs  *)
(* on the caller thread when no call is in progress.                       *)
(*                                                                         *)
(* The model is of a release build: assert() compiles to nothing and the   *)
(* error paths behind the asserts run.                                     *)
(***************************************************************************)
EXTENDS Integers, Sequences, FiniteSets

\* ---------------------------------------------------------------- bounds
\* Each specification below bounds what the environment does: how many public
\* calls the caller makes, how many handles the request callback creates, how
\* far the clock runs.
MaxFrames == 1      \* Spec: frame handles the request callback creates
MaxCalls == 2       \* Spec: StartRecord and StopRecord calls together
MaxPaths == 1       \* Spec: Screenshot calls
MaxNow == 1         \* Spec: the steady clock runs from 0 to MaxNow ticks
SessionCalls == 3   \* SpecSession
SessionFrames == 1
QueueCalls == 2     \* SpecQueue
QueueFrames == 1
ShotCalls == 1      \* SpecShots
ShotFrames == 1
ShotPaths == 2
PacingCalls == 1    \* SpecPacing
PacingFrames == 2
PacingNow == 4
CodecPaths == 1     \* SpecCodec
CodecFrames == 1
EncodeCalls == 2    \* SpecEncode
EncodeFrames == 2
EncodeNow == 2
LifeCalls == 2      \* SpecLife: StartRecord and StopRecord calls
LifeFrames == 1
LifePaths == 1
LifeFaults == 2     \* SpecLife: submissions that throw
FaultCalls == 2     \* SpecFaults
FaultFrames == 1
FaultPaths == 1
FaultLimit == 2     \* SpecFaults: submissions that throw
SampleCalls == 2    \* SpecSample
SampleFrames == 1
SamplePaths == 1
SampleFaults == 1   \* SpecSample: SampleFrame attempts that throw
SaveCalls == 1      \* SpecSave: StartRecord calls
SaveFrames == 1     \* SpecSave: SampleFrame calls that create a handle
SavePaths == 2      \* SpecSave: Screenshot calls
RetryCalls == 1     \* SpecRetry: StartRecord calls
RetryFrames == 2    \* SpecRetry: SampleFrame attempts that create a handle
RetryFaults == 2    \* SpecRetry: SampleFrame attempts that throw
RetryNow == 3       \* SpecRetry: the clock's last tick
\* Ticks of clock::duration per second.  steady_clock counts nanoseconds, a
\* power of ten like this scale: neither is a multiple of 30 or of 60.
ClockTicksPerSecond == 100

\* ------------------------------------------------------------- constants
lowFPS == 30
highFPS == 60

VARIABLES
    recordMode,       \* RecordMode
    nextFrame,        \* clock::time_point of the next due sample
    now,              \* clock::now()
    screenshotPaths,  \* CVideoRecorder::screenshotPaths (paths are numbered)
    taskQueue,        \* std::deque<std::unique_ptr<ITask>>
    frames,           \* the CFrame handles, by number
    nFrames,          \* handles created so far
    nPaths,           \* Screenshot calls so far
    nCalls,           \* StartRecord/StopRecord calls so far
    nPushed,          \* tasks pushed so far; a task's id is its push number
    pcCaller,         \* "idle"; "push": inside SampleFrame after the callback;
                      \* "error": in Error() at the predicate of its wait;
                      \* "blocked": in Error() waiting on workerEvent;
                      \* "retry": after Error(), about to call the method again
    pcW,              \* worker: "loop", "waiting", "exec", "crashed", "exited"
    current,          \* the task the worker popped and is executing
    session,          \* context, dstFrame, videoFile, videoFile->pb
    openFiles,        \* container files opened by avio_open and not yet closed
    saved,            \* paths handed to the image-save operation so far
    lastExec,         \* what the task the worker just executed did (ghost; kept
                      \* until the worker evaluates its loop again)
    pathExt,          \* the extension of each path passed to Screenshot
    savedAs,          \* the codec and the save operation each saved path got
    tally,            \* the encoder's input in the session opened last (ghost):
                      \* pictures sent, pictures due, whether it was flushed
    lastDue,          \* clock reading of the previous due sample since recording
                      \* was last started or stopped, -1 if none (ghost)
    status,           \* Status: "OK", "RETRY", "CLEAN"
    call,             \* the public method that caught an exception
    nextFrameBackup,  \* SampleFrame's local copy of nextFrame
    lastStart,        \* ghost: the id of the start-session task of the StartRecord
                      \* call that returned last, 0 when none did or a StartRecord
                      \* or StopRecord call was made since
    sampleEntry,      \* ghost: nextFrame and nPushed when the application entered
                      \* the SampleFrame call in progress
    nFaults,          \* submissions that threw so far
    finish,           \* CVideoRecorder::finish, the shutdown flag
    pcD,              \* destructor: "none", "wait1", "blocked1", "stop",
                      \* "stopping", "wait2", "blocked2", "join", "done"
    nDiscarded        \* tasks destroyed without being executed or cancelled

vars == <<recordMode, nextFrame, now, screenshotPaths, taskQueue, frames, nFrames,
          nPaths, nCalls, nPushed, pcCaller, pcW, current, session, openFiles,
          saved, lastExec, pathExt, savedAs, tally, lastDue, status, call,
          nextFrameBackup, sampleEntry, lastStart, nFaults, finish, pcD, nDiscarded>>

\* What only the caller thread writes, but for its own position
callerData ==
    <<recordMode, nextFrame, screenshotPaths, nPaths, nCalls, pathExt, lastDue, status,
      call, nextFrameBackup, sampleEntry, lastStart, nFaults, finish>>
callerVars == <<callerData, pcCaller, pcD>>
workerVars == <<current, session, openFiles, saved, lastExec, savedAs, tally, nDiscarded>>

\* ------------------------------------------------------------ data model
NoTask == [id |-> 0, kind |-> "none", frame |-> 0, matched |-> TRUE, highFPS |-> FALSE]

CFrameTask(id, f) ==
    [id |-> id, kind |-> "frame", frame |-> f, matched |-> TRUE, highFPS |-> FALSE]

CStartVideoRecordRequest(id, hi, matchedStop) ==
    [id |-> id, kind |-> "start", frame |-> 0, matched |-> matchedStop, highFPS |-> hi]

CStopVideoRecordRequest(id, matchedStart) ==
    [id |-> id, kind |-> "stop", frame |-> 0, matched |-> matchedStart, highFPS |-> FALSE]

\* No SampleFrame call is in progress
NoEntry == [nextFrame |-> 0, nPushed |-> 0]

\* A handle: st is "none" (not created), "held" (created by the callback, task
\* not pushed yet), "queued", "running" (popped), "done" (executed),
\* "removed" (its task erased by Cancel) or "dropped" (SampleFrame failed to
\* queue its task).  sampledFor is a ghost: lastStart when the handle was made.
NoFrame == [st |-> "none", ready |-> FALSE, cancelCalled |-> FALSE,
            screenshotPaths |-> <<>>, videoPendingFrames |-> 0, sampledFor |-> 0]

CFrame(paths, pending) ==
    [st |-> "held", ready |-> FALSE, cancelCalled |-> FALSE,
     screenshotPaths |-> paths, videoPendingFrames |-> pending, sampledFor |-> 0]

\* The unique_ptr members of the session; 0 is null, otherwise the id of the
\* start-session task that created the object.
NoSession == [context |-> 0, dstFrame |-> 0, videoFile |-> 0, pb |-> 0]

NoExec == [kind |-> "none", id |-> 0, hadSession |-> FALSE, warned |-> FALSE,
           io |-> FALSE, implicitStop |-> FALSE, fail |-> "none",
           saved |-> <<>>, encoded |-> 0, outcomes |-> 0, attempted |-> <<>>,
           steps |-> <<>>]

\* Nothing was given to an encoder yet
NoTally == [sent |-> 0, due |-> 0, flushed |-> FALSE]

\* Mutant: every task counts as ready
AlwaysReady(t) == TRUE

\* ITask::operator bool, CFrameTask::operator bool
TaskReady(t) ==
    IF t.kind = "frame" THEN frames[t.frame].ready ELSE TRUE

\* workerEvent.notify_all() as the worker sees it: a waiting worker wakes and
\* evaluates its loop again.
Notified(pc) == IF pc = "waiting" THEN "loop" ELSE pc

\* No public method is handling an exception
NoCall == [op |-> "none", highFPS |-> FALSE]

\* A notification as a caller waiting in Error() sees it: it wakes and
\* evaluates the predicate of its wait again (line 179).
Woken(pc) == IF pc = "blocked" THEN "error" ELSE pc

\* A notification as the waiting destructor sees it (lines 719, 727)
WokenDestructor(d) ==
    IF d = "blocked1" THEN "wait1" ELSE IF d = "blocked2" THEN "wait2" ELSE d

\* ---------------------------------------------------- screenshot codec
\* Wide strings are sequences of code points.  Wide(str) is the wide string of
\* a sequence of one-character strings made of '.' and lower-case letters.
Letters ==
    <<"a", "b", "c", "d", "e", "f", "g", "h", "i", "j", "k", "l", "m",
      "n", "o", "p", "q", "r", "s", "t", "u", "v", "w", "x", "y", "z">>

CodePoint(ch) ==
    IF ch = "." THEN 46
    ELSE 96 + CHOOSE i \in 1..Len(Letters) : Letters[i] = ch

Wide(str) == [i \in 1..Len(str) |-> CodePoint(str[i])]

\* pictureFormats (lines 206-221)
pictureFormats ==
    <<[ext |-> Wide(<<".", "b", "m", "p">>),      codec |-> "WIC_CODEC_BMP"],
      [ext |-> Wide(<<".", "j", "p", "g">>),      codec |-> "WIC_CODEC_JPEG"],
      [ext |-> Wide(<<".", "j", "p", "e", "g">>), codec |-> "WIC_CODEC_JPEG"],
      [ext |-> Wide(<<".", "p", "n", "g">>),      codec |-> "WIC_CODEC_PNG"],
      [ext |-> Wide(<<".", "t", "i", "f">>),      codec |-> "WIC_CODEC_TIFF"],
      [ext |-> Wide(<<".", "t", "i", "f", "f">>), codec |-> "WIC_CODEC_TIFF"],
      [ext |-> Wide(<<".", "g", "i", "f">>),      codec |-> "WIC_CODEC_GIF"],
      [ext |-> Wide(<<".", "h", "d", "p">>),      codec |-> "WIC_CODEC_WMP"],
      [ext |-> Wide(<<".", "j", "x", "r">>),      codec |-> "WIC_CODEC_WMP"],
      [ext |-> Wide(<<".", "w", "d", "p">>),      codec |-> "WIC_CODEC_WMP"],
      [ext |-> Wide(<<".", "i", "c", "o">>),      codec |-> "WIC_CODEC_ICO"],
      [ext |-> Wide(<<".", "d", "d", "s">>),      codec |-> "CODEC_DDS"],
      [ext |-> Wide(<<".", "t", "g", "a">>),      codec |-> "CODEC_TGA"]>>

\* Mutant: the extension is compared as given
KeepCase(c) == c

\* tolower in the "C" locale, on the code points the model uses (ASCII)
ToLower(c) == IF c \in 65..90 THEN c + 32 ELSE c

\* GetScreenshotCodec (lines 223-237): lower the case, find the first entry
\* with that extension, fall back to TGA
GetScreenshotCodec(ext) ==
    LET lowered == [i \in 1..Len(ext) |-> ToLower(ext[i])]
        hits == {i \in 1..Len(pictureFormats) : pictureFormats[i].ext = lowered}
    IN  IF hits = {} THEN "CODEC_TGA"
        ELSE pictureFormats[CHOOSE i \in hits : \A j \in hits : i <= j].codec

\* The save operation the frame task calls for a codec (lines 330-341)
SaveOperation(codec) ==
    IF codec = "CODEC_DDS" THEN "SaveToDDSFile"
    ELSE IF codec = "CODEC_TGA" THEN "SaveToTGAFile"
    ELSE "SaveToWICFile"

NotSaved == [codec |-> "none", by |-> "none"]

\* One pass of the save loop for a path with extension ext (lines 322-341)
SaveScreenshot(ext) ==
    [codec |-> GetScreenshotCodec(ext), by |-> SaveOperation(GetScreenshotCodec(ext))]

\* -------------------------------------------------------------- pacing
FPSOf(mode) == IF mode = "HIGH_FPS" THEN highFPS ELSE lowFPS

\* Mutant: the elapsed whole intervals without the one added
DeltaWithoutOne(FPS, t, deadline) ==
    ((t - deadline) * FPS) \div ClockTicksPerSecond

\* duration_cast<FrameDuration<FPS>>(now - nextFrame) + FrameDuration<FPS>(1)
AdvanceFrameDelta(FPS, t, deadline) ==
    ((t - deadline) * FPS) \div ClockTicksPerSecond + 1

\* nextFrame += duration_cast<clock::duration>(delta)
AdvanceFrameNext(FPS, delta, deadline) ==
    deadline + (delta * ClockTicksPerSecond) \div FPS

\* Mutant: a sample is due only after the deadline has passed
PendingAfterDeadline(mode, t, deadline) ==
    IF mode # "STOPPED" /\ t > deadline
    THEN AdvanceFrameDelta(FPSOf(mode), t, deadline)
    ELSE 0

\* SampleFrame lines 753-771: the pending count, 0 when no sample is due
PendingFrames(mode, t, deadline) ==
    IF mode # "STOPPED" /\ t >= deadline
    THEN AdvanceFrameDelta(FPSOf(mode), t, deadline)
    ELSE 0

NextFrameAfter(mode, t, deadline) ==
    IF mode # "STOPPED" /\ t >= deadline
    THEN AdvanceFrameNext(FPSOf(mode), AdvanceFrameDelta(FPSOf(mode), t, deadline), deadline)
    ELSE deadline

\* --------------------------------------------------------------- Init
\* Handles any specification can create
FrameSlots ==
    MaxFrames + SessionFrames + QueueFrames + ShotFrames + PacingFrames + EncodeFrames
        + CodecFrames + LifeFrames + FaultFrames + SampleFrames + SaveFrames + RetryFrames

\* Paths any specification can pass to Screenshot
PathSlots ==
    MaxPaths + ShotPaths + CodecPaths + LifePaths + FaultPaths + SamplePaths + SavePaths

Init ==
    /\ recordMode = "STOPPED"
    /\ nextFrame = 0
    /\ now = 0
    /\ screenshotPaths = <<>>
    /\ taskQueue = <<>>
    /\ frames = [f \in 1..FrameSlots |-> NoFrame]
    /\ nFrames = 0
    /\ nPaths = 0
    /\ nCalls = 0
    /\ nPushed = 0
    /\ pcCaller = "idle"
    /\ pcW = "loop"
    /\ current = NoTask
    /\ session = NoSession
    /\ openFiles = {}
    /\ saved = {}
    /\ lastExec = NoExec
    /\ pathExt = [p \in 1..PathSlots |-> <<>>]
    /\ savedAs = [p \in 1..PathSlots |-> NotSaved]
    /\ tally = NoTally
    /\ lastDue = -1
    /\ status = "OK"
    /\ call = NoCall
    /\ nextFrameBackup = 0
    /\ sampleEntry = NoEntry
    /\ lastStart = 0
    /\ nFaults = 0
    /\ finish = FALSE
    /\ pcD = "none"
    /\ nDiscarded = 0

\* The process is alive: an access violation in the worker ends every thread.
Alive == pcW # "crashed"

\* ------------------------------------------------------- caller thread
\* The steady clock advances.
Tick ==
    /\ Alive
    /\ now' = now + 1
    /\ UNCHANGED <<callerVars, taskQueue, frames, nFrames, nPushed, pcW, workerVars>>

\* Whether the caller thread is at the entry of public method op: a new call
\* (StopRecord also as the destructor calls it, line 722), or the second try
\* that follows Error() (lines 793, 823, 854, 873)
Invoked(op) ==
    \/ pcCaller = "idle" /\ pcD = "none"
    \/ pcCaller = "idle" /\ pcD = "stop" /\ op = "stop"
    \/ pcCaller = "retry" /\ call.op = op

\* StartRecord/StopRecord calls of the application, a second try not counted
Counted(n) == IF pcCaller = "idle" /\ pcD = "none" THEN n + 1 ELSE n

\* The destructor, once the StopRecord it called (line 722) has returned
AfterCall(d) == IF d \in {"stop", "stopping"} THEN "wait2" ELSE d

\* The destructor while the StopRecord it called handles an exception
DuringCall(d) == IF d = "stop" THEN "stopping" ELSE d

\* Screenshot(filename), the filename having extension ext (lines 860-865)
ScreenshotAs(ext) ==
    /\ Alive
    /\ Invoked("shot")
    /\ pcCaller = "retry" => ext = pathExt[nPaths]
    /\ LET p == IF pcCaller = "retry" THEN nPaths ELSE nPaths + 1
       IN  /\ nPaths' = p
           /\ screenshotPaths' = Append(screenshotPaths, p)
           /\ pathExt' = [pathExt EXCEPT ![p] = ext]
    /\ pcCaller' = "idle"
    /\ status' = "OK"
    /\ call' = NoCall
    /\ UNCHANGED <<recordMode, nextFrame, now, taskQueue, frames, nFrames, nCalls,
                   nPushed, pcW, workerVars, lastDue, nextFrameBackup, sampleEntry,
                   lastStart, nFaults, finish,
                   pcD>>

\* Screenshot(L"shot.png")
Screenshot == ScreenshotAs(Wide(<<".", "p", "n", "g">>))

\* Screenshot whose screenshotPaths.push throws (lines 864, 867-869): the path
\* is not queued and Error() is entered.
ScreenshotThrows(ext) ==
    /\ Alive
    /\ Invoked("shot")
    /\ pcCaller = "retry" => ext = pathExt[nPaths]
    /\ LET p == IF pcCaller = "retry" THEN nPaths ELSE nPaths + 1
       IN  /\ nPaths' = p
           /\ pathExt' = [pathExt EXCEPT ![p] = ext]
    /\ pcCaller' = "error"
    /\ call' = [op |-> "shot", highFPS |-> FALSE]
    /\ nFaults' = nFaults + 1
    /\ UNCHANGED <<recordMode, nextFrame, now, screenshotPaths, taskQueue, frames, nFrames,
                   nCalls, nPushed, pcW, workerVars, lastDue, status, nextFrameBackup,
                   sampleEntry, lastStart, finish, pcD>>

\* nextFrame and nPushed at the entry of SampleFrame by the application; a
\* second try (line 793) belongs to the call that failed
SampleEntered ==
    IF pcCaller = "idle" THEN [nextFrame |-> nextFrame, nPushed |-> nPushed] ELSE sampleEntry

\* Mutant: only a due video sample makes SampleFrame call the request callback
SampleWhenDue(pending, paths) == pending # 0

\* Whether SampleFrame calls the request callback and queues a task (line 773)
SampleWanted(pending, paths) == pending # 0 \/ paths # <<>>

\* SampleFrame up to the return of RequestFrameCallback (lines 753-777): pacing,
\* then, if a sample is due or screenshots are pending, the callback builds the
\* handle from the opaque tuple (paths moved out of the recorder).  With
\* nothing to do the call returns.
SampleFrameRequest ==
    /\ Alive
    /\ Invoked("sample")
    /\ UNCHANGED lastStart
    /\ LET pending == PendingFrames(recordMode, now, nextFrame)
       IN  IF SampleWanted(pending, screenshotPaths)
           THEN /\ nextFrameBackup' = nextFrame
                /\ nextFrame' = NextFrameAfter(recordMode, now, nextFrame)
                /\ nFrames' = nFrames + 1
                /\ frames' = [frames EXCEPT ![nFrames + 1] =
                                 [CFrame(screenshotPaths, pending) EXCEPT
                                     !.sampledFor = lastStart]]
                /\ screenshotPaths' = <<>>
                /\ pcCaller' = "push"
                /\ sampleEntry' = SampleEntered
                /\ lastDue' = IF pending # 0 THEN now ELSE lastDue
                /\ UNCHANGED <<status, call>>
           ELSE /\ pcCaller' = "idle"
                /\ sampleEntry' = NoEntry
                /\ status' = "OK"
                /\ call' = NoCall
                /\ UNCHANGED <<nextFrame, nFrames, frames, screenshotPaths, lastDue,
                               nextFrameBackup>>
    /\ UNCHANGED <<recordMode, now, taskQueue, nPaths, nCalls, nPushed, pcW, workerVars,
                   pathExt, nFaults, finish, pcD>>

\* Mutant: a failed attempt leaves nextFrame as pacing advanced it
KeptDeadline(backup, advanced) == advanced

\* nextFrame after an attempt of SampleFrame that threw (line 788): the copy
\* taken at line 755, whatever AdvanceFrame made of nextFrame (line 747)
RestoredDeadline(backup, advanced) == backup

\* SampleFrame whose request callback throws (lines 777, 786-789): the paths
\* moved into the opaque tuple are gone with it, nextFrame is put back and
\* Error() is entered.
SampleFrameCallbackThrows ==
    /\ Alive
    /\ Invoked("sample")
    /\ SampleWanted(PendingFrames(recordMode, now, nextFrame), screenshotPaths)
    /\ sampleEntry' = SampleEntered
    /\ UNCHANGED lastStart
    /\ nextFrame' = RestoredDeadline(nextFrame, NextFrameAfter(recordMode, now, nextFrame))
    /\ screenshotPaths' = <<>>
    /\ pcCaller' = "error"
    /\ call' = [op |-> "sample", highFPS |-> FALSE]
    /\ nFaults' = nFaults + 1
    /\ UNCHANGED <<recordMode, now, taskQueue, frames, nFrames, nPaths, nCalls,
                   nPushed, pcW, workerVars, pathExt, lastDue, status, nextFrameBackup,
                   finish, pcD>>

\* SampleFrame lines 778-780: lock, push the frame task, notify; the call returns.
SampleFramePush ==
    /\ Alive
    /\ pcCaller = "push"
    /\ taskQueue' = Append(taskQueue, CFrameTask(nPushed + 1, nFrames))
    /\ nPushed' = nPushed + 1
    /\ frames' = [frames EXCEPT ![nFrames].st = "queued"]
    /\ pcW' = Notified(pcW)
    /\ pcCaller' = "idle"
    /\ status' = "OK"
    /\ call' = NoCall
    /\ nextFrameBackup' = 0
    /\ sampleEntry' = NoEntry
    /\ UNCHANGED <<recordMode, nextFrame, now, screenshotPaths, nFrames, nPaths, nCalls,
                   workerVars, pathExt, lastDue, nFaults, finish, pcD, lastStart>>

\* SampleFrame in which make_unique<CFrameTask> or push_back throws after the
\* callback returned the handle (lines 777-779, 786-789): the handle never gets
\* a task ("dropped"), nextFrame is put back and Error() is entered.  If the
\* attempt was a due sample, the observer of due samples starts again.
SampleFramePushThrows ==
    /\ Alive
    /\ pcCaller = "push"
    /\ frames' = [frames EXCEPT ![nFrames].st = "dropped"]
    /\ nextFrame' = RestoredDeadline(nextFrameBackup, nextFrame)
    /\ nextFrameBackup' = 0
    /\ lastDue' = IF frames[nFrames].videoPendingFrames # 0 THEN -1 ELSE lastDue
    /\ pcCaller' = "error"
    /\ call' = [op |-> "sample", highFPS |-> FALSE]
    /\ nFaults' = nFaults + 1
    /\ UNCHANGED <<recordMode, now, screenshotPaths, taskQueue, nFrames, nPaths, nCalls,
                   nPushed, pcW, workerVars, pathExt, status, finish, pcD, sampleEntry,
                   lastStart>>

\* Mutant: every start-session task claims a matching stop
AlwaysMatchedStop(mode) == TRUE

\* The matchedStop flag of a new start-session task (line 806)
StartMatchedStop(mode) == mode = "STOPPED"

\* StartRecord -> StartRecordImpl (lines 801-812)
StartRecord(hi) ==
    /\ Alive
    /\ Invoked("start")
    /\ pcCaller = "retry" => hi = call.highFPS
    /\ nCalls' = Counted(nCalls)
    /\ taskQueue' = Append(taskQueue,
            CStartVideoRecordRequest(nPushed + 1, hi, StartMatchedStop(recordMode)))
    /\ nPushed' = nPushed + 1
    /\ pcW' = Notified(pcW)
    /\ recordMode' = IF hi THEN "HIGH_FPS" ELSE "LOW_FPS"
    /\ nextFrame' = now
    /\ lastStart' = nPushed + 1
    /\ lastDue' = -1
    /\ pcCaller' = "idle"
    /\ status' = "OK"
    /\ call' = NoCall
    /\ UNCHANGED <<now, screenshotPaths, frames, nFrames, nPaths, workerVars, pathExt,
                   nextFrameBackup, sampleEntry, nFaults, finish, pcD>>

\* StartRecordImpl in which the task's allocation or push_back throws (lines
\* 806-808, 817-819): nothing is queued, the mode stays, Error() is entered.
StartRecordThrows(hi) ==
    /\ Alive
    /\ Invoked("start")
    /\ pcCaller = "retry" => hi = call.highFPS
    /\ nCalls' = Counted(nCalls)
    /\ pcCaller' = "error"
    /\ call' = [op |-> "start", highFPS |-> hi]
    /\ nFaults' = nFaults + 1
    /\ lastStart' = 0
    /\ UNCHANGED <<recordMode, nextFrame, now, screenshotPaths, taskQueue, frames, nFrames,
                   nPaths, nPushed, pcW, workerVars, pathExt, lastDue, status,
                   nextFrameBackup, sampleEntry, finish, pcD>>

\* StopRecord (lines 834-843)
StopRecord ==
    /\ Alive
    /\ Invoked("stop")
    /\ nCalls' = Counted(nCalls)
    /\ taskQueue' = Append(taskQueue,
            CStopVideoRecordRequest(nPushed + 1, recordMode # "STOPPED"))
    /\ nPushed' = nPushed + 1
    /\ pcW' = Notified(pcW)
    /\ recordMode' = "STOPPED"
    /\ lastStart' = 0
    /\ lastDue' = -1
    /\ pcCaller' = "idle"
    /\ status' = "OK"
    /\ call' = NoCall
    /\ pcD' = AfterCall(pcD)
    /\ UNCHANGED <<nextFrame, now, screenshotPaths, frames, nFrames, nPaths, workerVars,
                   pathExt, nextFrameBackup, sampleEntry, nFaults, finish>>

\* StopRecord in which make_unique or push_back throws (lines 838-840,
\* 848-850): nothing is queued, the mode stays, Error() is entered.
StopRecordThrows ==
    /\ Alive
    /\ Invoked("stop")
    /\ nCalls' = Counted(nCalls)
    /\ pcCaller' = "error"
    /\ call' = [op |-> "stop", highFPS |-> FALSE]
    /\ nFaults' = nFaults + 1
    /\ lastStart' = 0
    /\ pcD' = DuringCall(pcD)
    /\ UNCHANGED <<recordMode, nextFrame, now, screenshotPaths, taskQueue, frames, nFrames,
                   nPaths, nPushed, pcW, workerVars, pathExt, lastDue, status,
                   nextFrameBackup, sampleEntry, finish>>

\* ------------------------------------------------------------- producer
\* CFrame::Ready (lines 624-636).  The producer calls it on a handle it holds
\* and has not resolved yet.
Ready(f) ==
    /\ Alive
    /\ pcD # "done"
    /\ frames[f].st # "none"
    /\ ~frames[f].ready
    /\ ~frames[f].cancelCalled
    /\ frames' = [frames EXCEPT ![f].ready = TRUE]
    /\ pcW' = Notified(pcW)
    /\ pcCaller' = Woken(pcCaller)
    /\ pcD' = WokenDestructor(pcD)
    /\ UNCHANGED <<callerData, now, taskQueue, nFrames, nPushed, workerVars>>

\* std::find_if(taskQueue.cbegin(), taskQueue.cend(), pred) of Cancel: the
\* position of the first frame task of handle f, 0 for cend()
FindFrameTask(q, f) ==
    LET hits == {i \in 1..Len(q) : q[i].kind = "frame" /\ q[i].frame = f}
    IN  IF hits = {} THEN 0 ELSE CHOOSE i \in hits : \A j \in hits : i <= j

\* taskQueue.erase(taskToDelete)
EraseTask(q, i) ==
    SubSeq(q, 1, i - 1) \o SubSeq(q, i + 1, Len(q))

\* Mutant: erase from the match to the end of the queue
CancelQueueToEnd(q, f) ==
    IF FindFrameTask(q, f) # 0 THEN SubSeq(q, 1, FindFrameTask(q, f) - 1) ELSE q

\* The queue after Cancel (lines 655-660)
CancelQueue(q, f) ==
    IF FindFrameTask(q, f) # 0 THEN EraseTask(q, FindFrameTask(q, f)) ELSE q

\* CFrame::Cancel (lines 638-667).  It may follow Ready (a late cancel), and it
\* may come before SampleFrame has pushed the handle's task.
Cancel(f) ==
    /\ Alive
    /\ pcD # "done"
    /\ frames[f].st # "none"
    /\ ~frames[f].cancelCalled
    /\ taskQueue' = CancelQueue(taskQueue, f)
    /\ frames' = [frames EXCEPT ![f].cancelCalled = TRUE,
                                ![f].st = IF FindFrameTask(taskQueue, f) # 0
                                          THEN "removed" ELSE frames[f].st]
    /\ pcW' = Notified(pcW)
    /\ pcCaller' = Woken(pcCaller)
    /\ pcD' = WokenDestructor(pcD)
    /\ UNCHANGED <<callerData, now, nFrames, nPushed, workerVars>>

\* --------------------------------------------------------------- session
\* Mutant: Cleanup() releases the encoder and leaves the container open
CleanupKeepsFile(s, files) ==
    [ub      |-> s.videoFile = 0,
     session |-> [s EXCEPT !.context = 0, !.dstFrame = 0],
     files   |-> files]

\* CVideoRecorder::Cleanup (lines 151-158) on session s with the open files
\* `files`.  videoFile->pb is read through a null videoFile when no output
\* context exists: ub tells so, and the result is then what a build gives in
\* which the read yields null.
Cleanup(s, files) ==
    [ub      |-> s.videoFile = 0,
     session |-> NoSession,
     files   |-> IF s.videoFile # 0 /\ s.pb # 0 THEN files \ {s.pb} ELSE files]

\* CStopVideoRecordRequest::operator() (lines 582-614)
StopSession(matchedStart, s, files) ==
    IF s.videoFile = 0
    THEN [session |-> s, files |-> files, ub |-> FALSE, io |-> FALSE,
          warned |-> ~matchedStart, sent |-> 0, flushed |-> FALSE]
    ELSE LET closed == [s EXCEPT !.pb = 0]          \* avio_closep(&videoFile->pb)
             c == Cleanup(closed, files \ {s.pb})
         IN  [session |-> c.session, files |-> c.files, ub |-> c.ub, io |-> TRUE,
              warned |-> ~matchedStart,
              \* Encode(): avcodec_send_frame(context, dstFrame.get())
              sent |-> IF s.dstFrame # 0 THEN 1 ELSE 0,
              flushed |-> s.dstFrame = 0]

\* The steps of a start-session task that can fail, in program order
StartSteps ==
    <<"find_encoder", "alloc_context", "open_codec", "alloc_frame", "frame_buffer",
      "output_context", "new_stream", "parameters", "avio_open", "write_header">>

StartStepSet == {StartSteps[i] : i \in 1..Len(StartSteps)}

StepIndex(step) ==
    IF step = "none" THEN Len(StartSteps) + 1
    ELSE CHOOSE i \in 1..Len(StartSteps) : StartSteps[i] = step

\* Mutant: a start-session task never closes the open session
StartNeverStops(s) == FALSE

\* Whether a start-session task closes the open session first (lines 430-434)
StartStopsOpenSession(s) == s.videoFile # 0

\* CStartVideoRecordRequest::operator() (lines 425-580) of task `id` failing at
\* step `fail` ("none": every step succeeds)
StartSession(id, fail, s, files) ==
    LET stop == IF StartStopsOpenSession(s)
                THEN StopSession(TRUE, s, files)
                ELSE [session |-> s, files |-> files, ub |-> FALSE, io |-> FALSE,
                      warned |-> FALSE, sent |-> 0, flushed |-> FALSE]
        n == StepIndex(fail)
        s0 == stop.session
        \* the members as the steps up to the failing one leave them
        reached == [context   |-> IF n > 2 THEN id ELSE IF n = 2 THEN 0 ELSE s0.context,
                    dstFrame  |-> IF n > 4 THEN id ELSE IF n = 4 THEN 0 ELSE s0.dstFrame,
                    \* videoFile.reset(output) frees the old context, not its pb
                    videoFile |-> IF n > 6 THEN id ELSE s0.videoFile,
                    pb        |-> IF n > 9 THEN id ELSE IF n > 6 THEN 0 ELSE s0.pb]
        opened == IF n > 9 THEN stop.files \cup {id} ELSE stop.files
        c == Cleanup(reached, opened)
        cleans == n >= 3 /\ n <= 10       \* the failures that call Cleanup()
    IN  [session |-> IF cleans THEN c.session ELSE reached,
         files   |-> IF cleans THEN c.files ELSE opened,
         ub      |-> stop.ub \/ (cleans /\ c.ub),
         implicitStop |-> StartStopsOpenSession(s),
         sent    |-> stop.sent,
         flushed |-> stop.flushed]


\* ------------------------------------------------------------- Error()
\* Mutant: Error() logs without waiting for the queue
ErrorNeverWaits(q) == TRUE

\* The predicate of the wait in Error() (line 179)
ErrorMayLog(q) == q = <<>>

\* Error() at line 179 with tasks queued: the caller waits on workerEvent.
ErrorWait ==
    /\ Alive
    /\ pcCaller = "error"
    /\ ~ErrorMayLog(taskQueue)
    /\ pcCaller' = "blocked"
    /\ UNCHANGED <<callerData, pcD, now, taskQueue, frames, nFrames, nPushed, pcW,
                   workerVars>>

\* Mutant: the catch block leaves the status as it is before the second try
KeepsStatus(op) == "OK"

\* The status the catch block sets before it calls the method again (lines
\* 792, 822, 853, 872)
RetryStatus(op) == IF op = "stop" THEN "CLEAN" ELSE "RETRY"

\* Error() from line 180 on, and the catch block that called it up to its
\* second try or its return (lines 790-795, 820-825, 851-856, 870-875).  With
\* status OK the method is about to be called again.  Otherwise this was the
\* second try and the call returns; with status CLEAN and an output context
\* Error() calls Cleanup() and clears the queue on this thread (lines 190-194).
\* raced: the worker is executing a task meanwhile and the unsynchronised
\* Cleanup() breaks the process.
ErrorLog(raced) ==
    /\ Alive
    /\ pcCaller = "error"
    /\ ErrorMayLog(taskQueue)
    /\ IF status = "OK"
       THEN /\ status' = RetryStatus(call.op)
            /\ pcCaller' = "retry"
            /\ UNCHANGED <<call, pcD, taskQueue, session, openFiles, pcW, nDiscarded,
                           sampleEntry>>
       ELSE /\ status' = "OK"
            /\ pcCaller' = "idle"
            /\ call' = NoCall
            /\ sampleEntry' = NoEntry
            /\ pcD' = AfterCall(pcD)
            /\ IF status = "CLEAN" /\ session.videoFile # 0
               THEN IF pcW = "exec" /\ raced
                    THEN /\ pcW' = "crashed"
                         /\ UNCHANGED <<taskQueue, session, openFiles, nDiscarded>>
                    ELSE /\ session' = Cleanup(session, openFiles).session
                         /\ openFiles' = Cleanup(session, openFiles).files
                         /\ taskQueue' = <<>>
                         /\ nDiscarded' = nDiscarded + Len(taskQueue)
                         /\ UNCHANGED pcW
               ELSE UNCHANGED <<taskQueue, session, openFiles, pcW, nDiscarded>>
    /\ UNCHANGED <<recordMode, nextFrame, now, screenshotPaths, frames, nFrames, nPaths,
                   nCalls, nPushed, current, saved, lastExec, savedAs, tally, pathExt,
                   lastDue, nextFrameBackup, lastStart, nFaults, finish>>

\* ---------------------------------------------------------- destructor
\* Mutant: the destructor sets the shutdown flag whatever is queued
FinishAtOnce(q) == TRUE

\* The predicate of the destructor's first wait (line 719)
DestructorMayStop(q) == q = <<>>

\* The predicate of the destructor's second wait (line 727)
DestructorMayFinish(q) == q = <<>>

\* ~CVideoRecorder is entered (line 715), no public call being in progress.
Destroy ==
    /\ Alive
    /\ pcCaller = "idle"
    /\ pcD = "none"
    /\ pcD' = IF recordMode # "STOPPED" THEN "wait1" ELSE "wait2"
    /\ UNCHANGED <<callerData, pcCaller, now, taskQueue, frames, nFrames, nPushed, pcW,
                   workerVars>>

\* Lines 718-721: wait for the empty queue, then warn and unlock; StopRecord
\* is called next.
DestructorWait1 ==
    /\ Alive
    /\ pcD = "wait1"
    /\ pcD' = IF DestructorMayStop(taskQueue) THEN "stop" ELSE "blocked1"
    /\ UNCHANGED <<callerData, pcCaller, now, taskQueue, frames, nFrames, nPushed, pcW,
                   workerVars>>

\* Lines 726-730: wait for the empty queue, then set finish and notify_all.
DestructorWait2 ==
    /\ Alive
    /\ pcD = "wait2"
    /\ IF DestructorMayFinish(taskQueue)
       THEN /\ finish' = TRUE
            /\ pcW' = Notified(pcW)
            /\ pcD' = "join"
       ELSE /\ pcD' = "blocked2"
            /\ UNCHANGED <<finish, pcW>>
    /\ UNCHANGED <<recordMode, nextFrame, screenshotPaths, nPaths, nCalls, pathExt, lastDue,
                   status, call, nextFrameBackup, sampleEntry, lastStart, nFaults, pcCaller, now,
                   taskQueue, frames,
                   nFrames, nPushed, workerVars>>

\* worker.join() (line 733) returns once Process() has returned.
DestructorJoin ==
    /\ Alive
    /\ pcD = "join"
    /\ pcW = "exited"
    /\ pcD' = "done"
    /\ UNCHANGED <<callerData, pcCaller, now, taskQueue, frames, nFrames, nPushed, pcW,
                   workerVars>>

\* --------------------------------------------------------------- worker
\* Mutant: the worker skips ahead to the first ready task
FirstReadyTask(q) ==
    LET ready == {i \in 1..Len(q) : TaskReady(q[i])}
    IN  IF ready = {} THEN 0 ELSE CHOOSE i \in ready : \A j \in ready : i <= j

\* The task Process() takes next (lines 675-683): the position in the queue of
\* the task to pop, 0 when the worker has to wait
NextTask(q) ==
    IF q = <<>> \/ ~TaskReady(q[1]) THEN 0 ELSE 1

\* One pass of the loop of Process() under the lock (lines 673-684): leave when
\* the shutdown flag is set; otherwise wait (after notify_one, which wakes the
\* caller thread if it waits), or pop the front task and release the lock.
WorkerLoop ==
    /\ pcW = "loop"
    /\ IF finish
       THEN /\ pcW' = "exited"
            /\ nDiscarded' = nDiscarded + Len(taskQueue)
            /\ UNCHANGED <<taskQueue, current, frames, pcCaller, pcD>>
       ELSE IF NextTask(taskQueue) = 0
       THEN /\ pcW' = "waiting"
            /\ pcCaller' = Woken(pcCaller)
            /\ pcD' = WokenDestructor(pcD)
            /\ UNCHANGED <<taskQueue, current, frames, nDiscarded>>
       ELSE /\ current' = taskQueue[NextTask(taskQueue)]
            /\ taskQueue' = EraseTask(taskQueue, NextTask(taskQueue))
            /\ frames' = IF current'.kind = "frame"
                         THEN [frames EXCEPT ![current'.frame].st = "running"]
                         ELSE frames
            /\ pcW' = "exec"
            /\ UNCHANGED <<pcCaller, pcD, nDiscarded>>
    /\ lastExec' = NoExec
    /\ UNCHANGED <<callerData, now, nFrames, nPushed, session, openFiles, saved, savedAs,
                   tally>>

\* What executing a task leaves behind when Cleanup() ran into the null
\* videoFile: the process dies, or the read gave null and the worker goes on.
AfterTask(ub, crash) == IF ub /\ crash THEN "crashed" ELSE "loop"

\* Mutant: screenshots are saved only while a session is open
SavesOnlyInSession(pixels, s) == pixels /\ s.videoFile # 0

\* Whether a frame task saves its screenshots (lines 308-315): only the pixel
\* pointer decides.
SavesScreenshots(pixels, s) == pixels

\* Mutant: a frame task goes on without pixels
NeverSkipped(pixels) == FALSE

\* Whether a frame task returns at once (lines 309-313): GetFrameData().pixels
\* is null
FrameSkipped(pixels) == ~pixels

\* Mutant: a frame task encodes whether or not a session is open
EncodesWithoutSession(pending, s) == pending # 0

\* Whether a frame task encodes (line 357)
EncodesVideo(pending, s) == pending # 0 /\ s.videoFile # 0

\* Mutant: the save loop ends with the first save that fails
SaveLoopEndsAtFailure(shots, bad) ==
    LET k == IF \E i \in 1..Len(shots) : shots[i] \in bad
             THEN CHOOSE i \in 1..Len(shots) :
                     /\ shots[i] \in bad
                     /\ \A j \in 1..(i - 1) : shots[j] \notin bad
             ELSE Len(shots) + 1
    IN  [attempted |-> SubSeq(shots, 1, IF k > Len(shots) THEN Len(shots) ELSE k),
         saved |-> SubSeq(shots, 1, k - 1)]

\* The save loop (lines 315-355) over the paths shots of a frame, the saves of
\* the paths in bad failing: a failure is caught and logged inside the loop
\* (lines 345-352) and the path is popped like a saved one (line 354).
SaveLoop(shots, bad) ==
    [attempted |-> shots,
     saved |-> SelectSeq(shots, LAMBDA p : p \notin bad)]

\* The steps of a frame task in the order of the code: the save loop (lines
\* 315-355), then the video part (from line 357) with its conversion (lines
\* 364-403) and one step per picture given to the encoder (lines 405-421)
FrameSteps(nShots, video, sent) ==
    [i \in 1..nShots |-> "save"]
        \o (IF video THEN <<"convert">> ELSE <<>>)
        \o [i \in 1..sent |-> "encode"]

\* CFrameTask::operator() (lines 304-423).  pixels: GetFrameData().pixels is not
\* null; bad: the attached paths whose save fails; fail: "none", or the step of
\* the video part that fails, in iteration failAt of the encode loop ("encode":
\* avcodec_send_frame refuses the picture; "write": Encode() fails after the
\* encoder took it).
ExecFrameSaving(pixels, bad, fail, failAt) ==
    LET f == current.frame
        fr == frames[f]
        loop == SaveLoop(IF SavesScreenshots(pixels, session)
                         THEN fr.screenshotPaths ELSE <<>>, bad)
        shots == loop.saved
        video == ~FrameSkipped(pixels) /\ EncodesVideo(fr.videoPendingFrames, session)
        failed == video /\ fail # "none"
        done == IF ~video THEN 0
                ELSE IF fail = "none" THEN fr.videoPendingFrames
                ELSE IF fail = "convert" THEN 0
                ELSE failAt - 1
        sent == IF video /\ fail = "write" THEN done + 1 ELSE done
        c == Cleanup(session, openFiles)
    IN  /\ pcW = "exec" /\ current.kind = "frame"
        /\ bad \subseteq {loop.attempted[i] : i \in 1..Len(loop.attempted)}
        /\ fail \in {"none", "convert", "make_writable", "encode", "write"}
        /\ failAt \in 1..fr.videoPendingFrames \/ (failAt = 1 /\ fr.videoPendingFrames = 0)
        /\ (fail \in {"none", "convert"} \/ ~video) => failAt = 1
        /\ ~video => fail = "none"
        /\ saved' = saved \cup {shots[i] : i \in 1..Len(shots)}
        /\ savedAs' = [p \in 1..PathSlots |->
                          IF \E i \in 1..Len(shots) : shots[i] = p
                          THEN SaveScreenshot(pathExt[p]) ELSE savedAs[p]]
        /\ session' = IF failed THEN c.session ELSE session
        /\ openFiles' = IF failed THEN c.files ELSE openFiles
        /\ frames' = [frames EXCEPT ![f].st = "done",
                        ![f].screenshotPaths = IF pixels THEN <<>> ELSE @,
                        ![f].videoPendingFrames = IF video THEN @ - done ELSE @]
        /\ lastExec' = [kind |-> "frame", id |-> current.id,
                        hadSession |-> session.videoFile # 0, warned |-> ~pixels,
                        io |-> video, implicitStop |-> FALSE,
                        fail |-> IF failed THEN fail ELSE "none",
                        saved |-> loop.saved, encoded |-> sent, outcomes |-> 0,
                        attempted |-> loop.attempted,
                        steps |-> FrameSteps(Len(loop.attempted), video, sent)]
        /\ tally' = IF video
                    THEN [tally EXCEPT !.sent = @ + sent, !.due = @ + fr.videoPendingFrames]
                    ELSE tally
        /\ pcW' = "loop"
        /\ current' = NoTask
        /\ UNCHANGED <<callerVars, now, taskQueue, nFrames, nPushed, nDiscarded>>

\* A frame task all of whose screenshots are saved
ExecFrame(pixels, fail, failAt) == ExecFrameSaving(pixels, {}, fail, failAt)

\* CStartVideoRecordRequest::operator() as the worker's step
ExecStart(fail, crash) ==
    LET r == StartSession(current.id, fail, session, openFiles)
    IN  /\ pcW = "exec" /\ current.kind = "start"
        /\ session' = r.session
        /\ openFiles' = r.files
        /\ lastExec' = [kind |-> "start", id |-> current.id,
                        hadSession |-> session.videoFile # 0, warned |-> ~current.matched,
                        io |-> TRUE, implicitStop |-> r.implicitStop,
                        fail |-> fail, saved |-> <<>>, encoded |-> r.sent,
                        attempted |-> <<>>, steps |-> <<>>,
                        outcomes |-> IF r.implicitStop THEN 1 ELSE 0]
        /\ tally' = IF fail = "none" THEN NoTally
                    ELSE IF r.implicitStop
                    THEN [tally EXCEPT !.sent = @ + r.sent, !.flushed = r.flushed]
                    ELSE tally
        /\ pcW' = AfterTask(r.ub, crash)
        /\ current' = NoTask
        /\ UNCHANGED <<callerVars, now, taskQueue, frames, nFrames, nPushed, saved, savedAs,
                       nDiscarded>>

\* The lines a stop-session task logs about the outcome (lines 610-613): none
\* when it returned for want of a session
StopOutcomeLines(io, fail) ==
    IF ~io THEN 0
    ELSE (IF fail = "none" THEN 1 ELSE 0) + (IF fail # "none" THEN 1 ELSE 0)

\* CStopVideoRecordRequest::operator() as the worker's step.  fail: "none", or
\* the step reported as failed ("flush", "trailer", "close"); the task goes on
\* to Cleanup() whatever fails.
ExecStop(fail, crash) ==
    LET r == StopSession(current.matched, session, openFiles)
    IN  /\ pcW = "exec" /\ current.kind = "stop"
        /\ fail \in {"none", "flush", "trailer", "close"}
        /\ ~r.io => fail = "none"
        /\ session' = r.session
        /\ openFiles' = r.files
        /\ lastExec' = [kind |-> "stop", id |-> current.id,
                        hadSession |-> session.videoFile # 0, warned |-> r.warned,
                        io |-> r.io, implicitStop |-> FALSE,
                        fail |-> fail, saved |-> <<>>, encoded |-> r.sent,
                        attempted |-> <<>>, steps |-> <<>>,
                        outcomes |-> StopOutcomeLines(r.io, fail)]
        /\ tally' = IF r.io
                    THEN [tally EXCEPT !.sent = @ + r.sent, !.flushed = r.flushed]
                    ELSE tally
        /\ pcW' = AfterTask(r.ub, crash)
        /\ current' = NoTask
        /\ UNCHANGED <<callerVars, now, taskQueue, frames, nFrames, nPushed, saved, savedAs,
                       nDiscarded>>

\* ----------------------------------------------------------------- Next
FrameFailures == {"none", "convert", "make_writable", "encode", "write"}
StopFailures == {"none", "flush", "trailer", "close"}

\* The worker thread
Worker(maxPending) ==
    \/ WorkerLoop
    \/ \E pixels \in BOOLEAN, fail \in FrameFailures, failAt \in 1..maxPending :
          ExecFrame(pixels, fail, failAt)
    \/ \E fail \in StartStepSet \cup {"none"}, crash \in BOOLEAN : ExecStart(fail, crash)
    \/ \E fail \in StopFailures, crash \in BOOLEAN : ExecStop(fail, crash)

\* The largest pending count a clock running to maxNow gives
MaxPending(maxNow) == AdvanceFrameDelta(highFPS, maxNow, 0)

Next ==
    \/ now < MaxNow /\ Tick
    \/ nPaths < MaxPaths /\ Screenshot
    \/ nFrames < MaxFrames /\ SampleFrameRequest
    \/ SampleFramePush
    \/ nCalls < MaxCalls /\ \E hi \in BOOLEAN : StartRecord(hi)
    \/ nCalls < MaxCalls /\ StopRecord
    \/ \E f \in 1..MaxFrames : Ready(f)
    \/ \E f \in 1..MaxFrames : Cancel(f)
    \/ Worker(MaxPending(MaxNow))

Spec == Init /\ [][Next]_vars

\* Recording sessions: starts, stops and the frames encoded in between.
SessionNext ==
    \/ nFrames < SessionFrames /\ SampleFrameRequest
    \/ SampleFramePush
    \/ nCalls < SessionCalls /\ \E hi \in BOOLEAN : StartRecord(hi)
    \/ nCalls < SessionCalls /\ StopRecord
    \/ \E f \in 1..SessionFrames : Ready(f)
    \/ Worker(1)

SpecSession == Init /\ [][SessionNext]_vars

\* The queue discipline: frame handles resolved by Ready or Cancel.
QueueNext ==
    \/ nFrames < QueueFrames /\ SampleFrameRequest
    \/ SampleFramePush
    \/ nCalls < QueueCalls /\ \E hi \in BOOLEAN : StartRecord(hi)
    \/ nCalls < QueueCalls /\ StopRecord
    \/ \E f \in 1..QueueFrames : Ready(f)
    \/ \E f \in 1..QueueFrames : Cancel(f)
    \/ Worker(1)

SpecQueue == Init /\ [][QueueNext]_vars

\* Screenshots, with and without a recording session.
ShotNext ==
    \/ nPaths < ShotPaths /\ Screenshot
    \/ nFrames < ShotFrames /\ SampleFrameRequest
    \/ SampleFramePush
    \/ nCalls < ShotCalls /\ \E hi \in BOOLEAN : StartRecord(hi)
    \/ nCalls < ShotCalls /\ StopRecord
    \/ \E f \in 1..ShotFrames : Ready(f)
    \/ \E f \in 1..ShotFrames : Cancel(f)
    \/ Worker(1)

SpecShots == Init /\ [][ShotNext]_vars

\* Pacing: the clock against the deadline.
PacingNext ==
    \/ now < PacingNow /\ Tick
    \/ nFrames < PacingFrames /\ SampleFrameRequest
    \/ SampleFramePush
    \/ nCalls < PacingCalls /\ \E hi \in BOOLEAN : StartRecord(hi)
    \/ nCalls < PacingCalls /\ StopRecord
    \/ \E f \in 1..PacingFrames : Ready(f)
    \/ Worker(MaxPending(PacingNow))

SpecPacing == Init /\ [][PacingNext]_vars

\* ext with the letters at the positions in U in upper case
UpperAt(ext, U) ==
    [i \in 1..Len(ext) |-> IF i \in U /\ ext[i] \in 97..122 THEN ext[i] - 32 ELSE ext[i]]

\* The extensions of the table in every mix of letter cases
KnownExtensions ==
    UNION {{UpperAt(pictureFormats[k].ext, U) : U \in SUBSET (1..Len(pictureFormats[k].ext))} :
              k \in 1..Len(pictureFormats)}

\* Extensions the table does not hold: none at all, a prefix of an entry, an
\* entry with a letter more, an entry without its dot, and one unlike any entry
UnknownExtensions ==
    UNION {{UpperAt(ext, U) : U \in SUBSET (1..Len(ext))} :
              ext \in {<<>>, Wide(<<".", "b", "m">>), Wide(<<".", "t", "g", "a", "a">>),
                       Wide(<<"p", "n", "g">>), Wide(<<".", "x", "y", "z">>)}}

\* Screenshots of files of every kind, taken without a recording
CodecNext ==
    \/ nPaths < CodecPaths /\ \E ext \in KnownExtensions \cup UnknownExtensions : ScreenshotAs(ext)
    \/ nFrames < CodecFrames /\ SampleFrameRequest
    \/ SampleFramePush
    \/ \E f \in 1..CodecFrames : Ready(f)
    \/ WorkerLoop
    \/ \E pixels \in BOOLEAN : ExecFrame(pixels, "none", 1)

SpecCodec == Init /\ [][CodecNext]_vars

\* A recording from start to stop: samples at the pace of the clock, every
\* handle resolved by Ready
EncodeNext ==
    \/ now < EncodeNow /\ Tick
    \/ nFrames < EncodeFrames /\ SampleFrameRequest
    \/ SampleFramePush
    \/ nCalls < EncodeCalls /\ \E hi \in BOOLEAN : StartRecord(hi)
    \/ nCalls < EncodeCalls /\ StopRecord
    \/ \E f \in 1..EncodeFrames : Ready(f)
    \/ Worker(MaxPending(EncodeNow))

SpecEncode == Init /\ [][EncodeNext]_vars

\* The life of a recorder: calls whose submission may throw, Error() and the
\* second try, and the destructor
LifeNext ==
    \/ (nPaths < LifePaths \/ pcCaller = "retry") /\ Screenshot
    \/ nFaults < LifeFaults /\ (nPaths < LifePaths \/ pcCaller = "retry")
          /\ ScreenshotThrows(Wide(<<".", "p", "n", "g">>))
    \/ nFrames < LifeFrames /\ SampleFrameRequest
    \/ nFaults < LifeFaults /\ SampleFrameCallbackThrows
    \/ SampleFramePush
    \/ nFaults < LifeFaults /\ SampleFramePushThrows
    \/ (nCalls < LifeCalls \/ pcCaller = "retry") /\ \E hi \in BOOLEAN : StartRecord(hi)
    \/ nFaults < LifeFaults /\ (nCalls < LifeCalls \/ pcCaller = "retry")
          /\ \E hi \in BOOLEAN : StartRecordThrows(hi)
    \/ (nCalls < LifeCalls \/ pcCaller = "retry" \/ pcD = "stop") /\ StopRecord
    \/ nFaults < LifeFaults /\ (nCalls < LifeCalls \/ pcCaller = "retry" \/ pcD = "stop")
          /\ StopRecordThrows
    \/ ErrorWait
    \/ \E raced \in BOOLEAN : ErrorLog(raced)
    \/ Destroy
    \/ DestructorWait1
    \/ DestructorWait2
    \/ DestructorJoin
    \/ \E f \in 1..LifeFrames : Ready(f)
    \/ \E f \in 1..LifeFrames : Cancel(f)
    \/ Worker(1)

SpecLife == Init /\ [][LifeNext]_vars

\* Public calls whose submission may throw, with Error() and the second try;
\* the tasks themselves all succeed
FaultNext ==
    \/ (nPaths < FaultPaths \/ pcCaller = "retry") /\ Screenshot
    \/ nFaults < FaultLimit /\ (nPaths < FaultPaths \/ pcCaller = "retry")
          /\ ScreenshotThrows(Wide(<<".", "p", "n", "g">>))
    \/ nFrames < FaultFrames /\ SampleFrameRequest
    \/ nFaults < FaultLimit /\ SampleFrameCallbackThrows
    \/ SampleFramePush
    \/ nFaults < FaultLimit /\ SampleFramePushThrows
    \/ (nCalls < FaultCalls \/ pcCaller = "retry") /\ \E hi \in BOOLEAN : StartRecord(hi)
    \/ nFaults < FaultLimit /\ (nCalls < FaultCalls \/ pcCaller = "retry")
          /\ \E hi \in BOOLEAN : StartRecordThrows(hi)
    \/ (nCalls < FaultCalls \/ pcCaller = "retry") /\ StopRecord
    \/ nFaults < FaultLimit /\ (nCalls < FaultCalls \/ pcCaller = "retry") /\ StopRecordThrows
    \/ ErrorWait
    \/ \E raced \in BOOLEAN : ErrorLog(raced)
    \/ \E f \in 1..FaultFrames : Ready(f)
    \/ WorkerLoop
    \/ ExecFrame(TRUE, "none", 1)
    \/ ExecStart("none", FALSE)
    \/ ExecStop("none", FALSE)

SpecFaults == Init /\ [][FaultNext]_vars

\* Sampling in every mode, with and without screenshots pending: SampleFrame
\* attempts that may throw, starts and stops; the tasks themselves all succeed
SampleNext ==
    \/ nPaths < SamplePaths /\ Screenshot
    \/ nFrames < SampleFrames /\ SampleFrameRequest
    \/ nFaults < SampleFaults /\ SampleFrameCallbackThrows
    \/ SampleFramePush
    \/ nFaults < SampleFaults /\ SampleFramePushThrows
    \/ nCalls < SampleCalls /\ \E hi \in BOOLEAN : StartRecord(hi)
    \/ nCalls < SampleCalls /\ StopRecord
    \/ ErrorWait
    \/ ErrorLog(FALSE)
    \/ \E f \in 1..SampleFrames : Ready(f)
    \/ WorkerLoop
    \/ ExecFrame(TRUE, "none", 1)
    \/ ExecStart("none", FALSE)
    \/ ExecStop("none", FALSE)

SpecSample == Init /\ [][SampleNext]_vars

\* A recording sampled at the pace of the clock, SampleFrame attempts failing
\* while the clock goes on
RetryNext ==
    \/ now < RetryNow /\ Tick
    \/ nCalls < RetryCalls /\ \E hi \in BOOLEAN : StartRecord(hi)
    \/ nFrames < RetryFrames /\ SampleFrameRequest
    \/ nFaults < RetryFaults /\ SampleFrameCallbackThrows
    \/ SampleFramePush
    \/ nFaults < RetryFaults /\ SampleFramePushThrows
    \/ ErrorWait
    \/ ErrorLog(FALSE)
    \/ \E f \in 1..RetryFrames : Ready(f)
    \/ WorkerLoop
    \/ ExecFrame(TRUE, "none", 1)
    \/ ExecStart("none", FALSE)

SpecRetry == Init /\ [][RetryNext]_vars

\* The paths attached to the frame of the task in execution
AttachedPaths ==
    IF pcW = "exec" /\ current.kind = "frame"
    THEN {frames[current.frame].screenshotPaths[i] :
             i \in 1..Len(frames[current.frame].screenshotPaths)}
    ELSE {}

\* Frames with screenshots in a recording, saves and video steps failing
SaveNext ==
    \/ nPaths < SavePaths /\ Screenshot
    \/ nFrames < SaveFrames /\ SampleFrameRequest
    \/ SampleFramePush
    \/ nCalls < SaveCalls /\ \E hi \in BOOLEAN : StartRecord(hi)
    \/ \E f \in 1..SaveFrames : Ready(f)
    \/ WorkerLoop
    \/ \E pixels \in BOOLEAN, bad \in SUBSET AttachedPaths, fail \in FrameFailures :
          ExecFrameSaving(pixels, bad, fail, 1)
    \/ ExecStart("none", FALSE)

SpecSave == Init /\ [][SaveNext]_vars

\* ============================================================== claims
Range(q) == {q[i] : i \in 1..Len(q)}

Increasing(q) == \A i, j \in 1..Len(q) : i < j => q[i] < q[j]

\* The members of the session all belong to one start-session task, or all
\* are null
WholeSession(s) ==
    /\ s.context = s.videoFile
    /\ s.dstFrame = s.videoFile
    /\ s.pb = s.videoFile

\* C1: for every sequence and interleaving of StartRecord and StopRecord calls
\* at most one recording session is open at any time: at most one container
\* file is open, it is the one of the live session, and after a start-session
\* task that found a session open the only file that can be open is its own.
C1_AtMostOneSession ==
    /\ Cardinality(openFiles) <= 1
    /\ openFiles # {} => (session.videoFile # 0 /\ openFiles = {session.pb})
    /\ pcW # "exec" => WholeSession(session)
    /\ (lastExec.kind = "start" /\ lastExec.hadSession) => openFiles \subseteq {lastExec.id}

\* A start-session task ran while a session was open, and opened its own.
C1_Witness ==
    /\ lastExec.kind = "start"
    /\ lastExec.hadSession
    /\ lastExec.fail = "none"
    /\ openFiles = {lastExec.id}
    /\ session.videoFile = lastExec.id

Popped == pcW # "exec" /\ pcW' = "exec"

\* C2: the worker executes tasks strictly in the order they were pushed: a pop
\* takes the front of the queue, which is ready and older than every task left
\* in the queue; while the front task is not ready nothing is popped; and the
\* task executed is the task popped.
C2_FifoOrder ==
    [][/\ Popped => /\ taskQueue # <<>>
                    /\ TaskReady(taskQueue[1])
                    /\ current' = taskQueue[1]
                    /\ taskQueue' = Tail(taskQueue)
                    /\ \A i \in 1..Len(taskQueue') : current'.id < taskQueue'[i].id
       /\ (taskQueue # <<>> /\ ~TaskReady(taskQueue[1])) => ~Popped
       /\ (pcW = "exec" /\ pcW' # "exec") => lastExec'.id = current.id
      ]_vars

\* The worker waits behind a frame task that is not ready while a ready task
\* is queued behind it.
C2_Witness ==
    /\ pcW = "waiting"
    /\ Len(taskQueue) >= 2
    /\ taskQueue[1].kind = "frame"
    /\ ~TaskReady(taskQueue[1])
    /\ taskQueue[2].kind # "frame"

\* C3: the worker never executes a frame task before Ready() was called on its
\* handle; a handle on which only Cancel() was called is never executed.
C3_ExecutedOnlyIfReady ==
    /\ \A f \in 1..FrameSlots : frames[f].st \in {"running", "done"} => frames[f].ready
    /\ current.kind = "frame" => frames[current.frame].ready
    /\ \A f \in 1..FrameSlots :
          (frames[f].cancelCalled /\ ~frames[f].ready) => frames[f].st \notin {"running", "done"}

\* A frame task was executed.
C3_Witness ==
    /\ lastExec.kind = "frame"
    /\ \E f \in 1..FrameSlots : frames[f].st = "done" /\ frames[f].ready

NotTaskOf(f, q) ==
    LET Other(t) == ~(t.kind = "frame" /\ t.frame = f)
    IN  SelectSeq(q, Other)

\* C4: Cancel() on a handle whose task is queued removes that one task and
\* leaves every other task in place and in order; Cancel() on a handle whose
\* task was popped already leaves the queue unchanged.
C4_CancelRemovesOne ==
    [][\A f \in 1..FrameSlots :
          (~frames[f].cancelCalled /\ frames'[f].cancelCalled) =>
              /\ taskQueue' = NotTaskOf(f, taskQueue)
              /\ Len(taskQueue') >= Len(taskQueue) - 1
              /\ frames[f].st = "queued" => Len(taskQueue') = Len(taskQueue) - 1
              /\ frames[f].st \in {"running", "done"} => taskQueue' = taskQueue
      ]_vars

\* A frame task was erased from between two other queued tasks.
C4_Witness ==
    \E f \in 1..FrameSlots :
        /\ frames[f].st = "removed"
        /\ Len(taskQueue) = 2
        /\ taskQueue[1].id + 2 = taskQueue[2].id

\* C5: once Cancel() has returned for a handle no task of that handle is in
\* the queue at any later time.
C5_CancelledNeverQueued ==
    \A f \in 1..FrameSlots : frames[f].cancelCalled => FindFrameTask(taskQueue, f) = 0

FrameCreated == nFrames' = nFrames + 1

\* C6: the paths passed to Screenshot() since the previous frame request go,
\* in the order queued, into the handle of the next frame request, which
\* SampleFrame makes whenever paths are pending, also in mode Stopped; a frame
\* task that executes with valid pixels hands exactly its paths, in that
\* order, to the image-save operation, with or without an open session.
C6_ScreenshotsAttachedAndSaved ==
    /\ [](/\ Increasing(screenshotPaths)
          /\ \A f \in 1..FrameSlots :
                /\ Increasing(frames[f].screenshotPaths)
                /\ \A p \in Range(frames[f].screenshotPaths), r \in Range(screenshotPaths) : p < r
          /\ (Alive /\ pcCaller = "idle" /\ screenshotPaths # <<>>)
                => ENABLED (SampleFrameRequest /\ FrameCreated))
    /\ [][/\ FrameCreated => /\ frames'[nFrames'].screenshotPaths = screenshotPaths
                             /\ screenshotPaths' = <<>>
          /\ (pcW = "exec" /\ lastExec'.kind = "frame" /\ ~lastExec'.warned) =>
                /\ lastExec'.saved = frames[current.frame].screenshotPaths
                /\ saved' = saved \cup Range(frames[current.frame].screenshotPaths)
         ]_vars

\* Two screenshots taken in mode Stopped were saved, in order, by one frame
\* task without a session.
C6_Witness ==
    /\ lastExec.kind = "frame"
    /\ lastExec.saved = <<1, 2>>
    /\ saved = {1, 2}
    /\ recordMode = "STOPPED"
    /\ ~lastExec.hadSession

\* C7: a path accepted by Screenshot() is never dropped: it is waiting in the
\* recorder, or attached to a frame request still to be executed, or it was
\* handed to the image-save operation.
C7_NoPathDropped ==
    \A p \in 1..nPaths :
        \/ p \in saved
        \/ p \in Range(screenshotPaths)
        \/ \E f \in 1..FrameSlots :
              /\ frames[f].st \in {"held", "queued", "running"}
              /\ p \in Range(frames[f].screenshotPaths)

StartsWithoutStop(q, i, j) ==
    /\ i < j
    /\ q[i].kind = "start"
    /\ q[j].kind = "start"
    /\ \A k \in (i + 1)..(j - 1) : q[k].kind # "stop"

\* C8, as stated: between any two start-session tasks in the queue there is a
\* stop-session task.
C8_StopBetweenStarts ==
    \A i, j \in 1..Len(taskQueue) : ~StartsWithoutStop(taskQueue, i, j)

\* C8, amended: between any two start-session tasks in the queue there is a
\* stop-session task, or the later one carries matchedStop = false.
C8_UnmatchedStartMarked ==
    \A i, j \in 1..Len(taskQueue) :
        StartsWithoutStop(taskQueue, i, j) => ~taskQueue[j].matched

\* Two start-session tasks are queued with no stop-session task between them.
C8_Witness ==
    \E i, j \in 1..Len(taskQueue) :
        StartsWithoutStop(taskQueue, i, j) /\ ~taskQueue[j].matched

DueSample == recordMode # "STOPPED" /\ now >= nextFrame /\ FrameCreated

\* C9, as stated: at a due sample the pending count is at least 1 and is the
\* ceiling of (gap since the previous due sample) x F, the deadline advances by
\* exactly that many frame intervals, and the new deadline is later than now.
C9_CeilingPacing ==
    [][DueSample =>
          LET n == frames'[nFrames'].videoPendingFrames
              gapF == (now - lastDue) * FPSOf(recordMode)
          IN  /\ n >= 1
              /\ lastDue >= 0 => /\ (n - 1) * ClockTicksPerSecond < gapF
                                 /\ gapF <= n * ClockTicksPerSecond
              /\ (nextFrame' - nextFrame) * FPSOf(recordMode) = n * ClockTicksPerSecond
              /\ nextFrame' > now
      ]_vars

\* C9, amended: at a due sample the pending count is at least 1 and is the
\* number of whole frame intervals in now - deadline plus one, the deadline
\* advances by that many frame intervals rounded down to a whole clock tick,
\* and the new deadline is not earlier than now.
C9_FloorPacing ==
    [][DueSample =>
          LET n == frames'[nFrames'].videoPendingFrames
              gapF == (now - nextFrame) * FPSOf(recordMode)
              advF == (nextFrame' - nextFrame) * FPSOf(recordMode)
          IN  /\ n >= 1
              /\ (n - 1) * ClockTicksPerSecond <= gapF
              /\ gapF < n * ClockTicksPerSecond
              /\ advF <= n * ClockTicksPerSecond
              /\ n * ClockTicksPerSecond < advF + FPSOf(recordMode)
              /\ nextFrame' >= now
      ]_vars

\* A late sample: one buffer stands for two or more frames.
C9_Witness ==
    \E f \in 1..FrameSlots :
        frames[f].st = "held" /\ frames[f].videoPendingFrames >= 2

\* C10: when the codec open step of a start-session task fails the worker does
\* not crash and no session is open afterwards; a stop-session task that then
\* runs without a session logs a warning and does no encoder or file I/O.
C10_CodecOpenFailure ==
    /\ (lastExec.kind = "start" /\ lastExec.fail = "open_codec") =>
          /\ pcW # "crashed"
          /\ session = NoSession
          /\ openFiles = {}
    /\ (lastExec.kind = "stop" /\ ~lastExec.hadSession) =>
          /\ lastExec.warned
          /\ ~lastExec.io

\* C11, as stated: when a stop-session task closes a session in which no step
\* failed, the pictures sent to the encoder since the session opened are as many
\* as the pending counts of the frame tasks executed in it add up to, and the
\* stop-session task sent no picture and flushed the encoder.
C11_EncodedFramesMatch ==
    (lastExec.kind = "stop" /\ lastExec.hadSession /\ lastExec.fail = "none") =>
        /\ tally.sent = tally.due
        /\ lastExec.encoded = 0
        /\ tally.flushed

\* C18, as stated: a start-session task that fails at any step leaves no
\* session and no open file and the worker running; a frame task or a
\* stop-session task that runs without a session encodes nothing and does no
\* file I/O.
C18_StartFailureLeavesNoSession ==
    /\ (lastExec.kind = "start" /\ lastExec.fail # "none") =>
          /\ session = NoSession
          /\ openFiles = {}
          /\ pcW = "loop"
    /\ (lastExec.kind \in {"frame", "stop"} /\ ~lastExec.hadSession) =>
          /\ ~lastExec.io
          /\ lastExec.encoded = 0

FrameTaskRuns == pcW = "exec" /\ current.kind = "frame" /\ pcW' # "exec"

StopTaskRuns == pcW = "exec" /\ current.kind = "stop" /\ pcW' # "exec"

SameButCase(a, b) ==
    /\ Len(a) = Len(b)
    /\ \A i \in 1..Len(a) :
          \/ a[i] = b[i]
          \/ a[i] \in 65..90 /\ b[i] = a[i] + 32
          \/ b[i] \in 65..90 /\ a[i] = b[i] + 32

\* C16: a saved screenshot whose extension is, but for letter case, an
\* extension of the table got that entry's codec; one whose extension is not in
\* the table got TGA and was saved by the TGA save operation; every screenshot
\* of a frame task that ran with valid pixels was saved.
C16_CodecLookup ==
    /\ \A p \in saved :
          LET entries == {k \in 1..Len(pictureFormats) :
                             SameButCase(pathExt[p], pictureFormats[k].ext)}
          IN  /\ \A k \in entries : savedAs[p].codec = pictureFormats[k].codec
              /\ entries = {} => /\ savedAs[p].codec = "CODEC_TGA"
                                 /\ savedAs[p].by = "SaveToTGAFile"
              /\ savedAs[p].by = "SaveToDDSFile" <=> savedAs[p].codec = "CODEC_DDS"
    /\ \A p \in 1..nPaths : p \in saved <=> savedAs[p] # NotSaved

\* A screenshot named in upper case got the codec of its table entry.
C16_Witness ==
    \E p \in saved :
        /\ pathExt[p] = UpperAt(Wide(<<".", "j", "p", "e", "g">>), 1..5)
        /\ savedAs[p].codec = "WIC_CODEC_JPEG"
        /\ savedAs[p].by = "SaveToWICFile"

\* A screenshot with an extension the table does not hold was saved as TGA.
C16_WitnessUnknown ==
    \E p \in saved :
        /\ pathExt[p] = Wide(<<".", "x", "y", "z">>)
        /\ savedAs[p].codec = "CODEC_TGA"

\* The method the handling call tries again
SecondTry ==
    \/ Screenshot
    \/ SampleFrameRequest
    \/ \E hi \in BOOLEAN : StartRecord(hi)
    \/ StopRecord

\* C12 as stated: every call to SampleFrame, StartRecord, StopRecord or
\* Screenshot returns after at most acquiring the queue mutex; no call ever
\* waits on the condition variable, also when a submission throws.
C12_CallersNeverWait == pcCaller # "blocked"

\* C12, amended: a call waits on the condition variable only in Error(), after
\* its submission threw.  Between the request callback and the push a call
\* needs nothing but the lock, and so does the second try.  Error() goes on to
\* log only with the task queue empty: with tasks queued the caller waits, and
\* a waiting caller facing an empty queue has a wake-up from the worker coming.
C12_WaitsOnlyInError ==
    /\ [](Alive =>
            /\ pcCaller \in {"error", "blocked"} => call.op # "none" /\ nFaults > 0
            /\ pcCaller = "push" => ENABLED SampleFramePush
            /\ pcCaller = "retry" => ENABLED SecondTry
            /\ pcCaller = "error" => ENABLED (ErrorWait \/ \E raced \in BOOLEAN : ErrorLog(raced))
            /\ pcCaller = "blocked" /\ taskQueue = <<>> => pcW \in {"exec", "loop"})
    /\ [][pcCaller = "error" /\ pcCaller' \in {"retry", "idle"} => taskQueue = <<>>]_vars
    /\ [][pcCaller = "error" /\ taskQueue # <<>> => pcCaller' \in {"error", "blocked"}]_vars

\* A call waits in Error() behind a frame task whose handle is not resolved
C12_Witness ==
    /\ pcCaller = "blocked"
    /\ taskQueue # <<>>
    /\ ~TaskReady(taskQueue[1])
    /\ pcW = "waiting"

\* Every handle the request callback created was resolved by Ready or Cancel
AllResolved ==
    \A f \in 1..FrameSlots :
        frames[f].st # "none" => frames[f].ready \/ frames[f].cancelCalled

\* A step of the worker, of the destructor, or of the StopRecord the
\* destructor called
DestructionStep ==
    \/ Worker(1)
    \/ DestructorWait1
    \/ DestructorWait2
    \/ DestructorJoin
    \/ StopRecord
    \/ ErrorWait
    \/ \E raced \in BOOLEAN : ErrorLog(raced)

\* The task of a cancelled handle is in the queue
CancelledTaskQueued ==
    \E i \in 1..Len(taskQueue) :
        taskQueue[i].kind = "frame" /\ frames[taskQueue[i].frame].cancelCalled

\* C13: destruction terminates.  With every handle resolved, every task
\* execution terminating and no new public call, the destructor is never
\* stuck: until it has returned, the worker, the destructor or the StopRecord
\* it called can take a step (its waits complete, the worker sees finish, the
\* join returns).
C13_DestructionTerminates ==
    (Alive /\ pcD \notin {"none", "done"} /\ AllResolved) => ENABLED DestructionStep

\* The same with no task of a cancelled handle left in the queue
C13_TerminatesWithoutCancelledTask ==
    (Alive /\ pcD \notin {"none", "done"} /\ AllResolved /\ ~CancelledTaskQueued)
        => ENABLED DestructionStep

\* C14: when the destructor returns, the worker has exited, the task queue is
\* empty, no task was discarded unexecuted and no recording session is open.
C14_DestroyedClean ==
    pcD = "done" =>
        /\ pcW = "exited"
        /\ taskQueue = <<>>
        /\ current = NoTask
        /\ nDiscarded = 0
        /\ session = NoSession
        /\ openFiles = {}

\* What C14 says of the worker and the queue, without the session
C14_DestroyedDrained ==
    /\ pcD = "done" =>
        /\ pcW = "exited"
        /\ taskQueue = <<>>
        /\ current = NoTask
        /\ nDiscarded = 0
    /\ finish => taskQueue = <<>>

\* The members of the session and the container files behind them
SessionInternals == <<session, openFiles>>

\* C15: session internals are read and written only by the worker thread: no
\* step of a public call or of its error handling changes them.
C15_SessionOnWorkerOnly ==
    [][(SessionInternals' # SessionInternals) => (pcW = "exec" /\ pcW' # "exec")]_vars

\* Error() is about to call Cleanup() on the caller thread while the worker
\* executes a task it has popped
CleanupRacesTask ==
    /\ pcCaller = "error"
    /\ status = "CLEAN"
    /\ taskQueue = <<>>
    /\ session.videoFile # 0
    /\ pcW = "exec"

\* The queue is non-empty and its front task is ready
FrontReady == taskQueue # <<>> /\ TaskReady(taskQueue[1])

\* C17: whenever the queue is non-empty and its front task is ready, the
\* worker pops and executes that task: it is executing the task popped before
\* or about to evaluate its loop, never blocked and never gone.
C17_FrontTaskTaken == FrontReady => pcW \in {"loop", "exec"}

\* The worker is never left waiting on workerEvent in front of a ready task
C17_NoLostWakeup == pcW = "waiting" => ~FrontReady

\* C21: a submission of SampleFrame, StartRecord or Screenshot that throws is
\* tried again exactly once per top-level call: the first failure leads to the
\* second try with status RETRY, the status stays RETRY until the call
\* returns, a failure of the second try leads to the return and to no third
\* try, and the status is OK whenever no call is in progress.
C21_RetriedOnce ==
    /\ [](pcCaller = "idle" => status = "OK" /\ call = NoCall)
    /\ [](pcCaller = "retry" /\ call.op # "stop" => status = "RETRY")
    /\ [](status = "RETRY" => call.op \in {"sample", "start", "shot"})
    /\ [][pcCaller = "error" /\ status = "OK" /\ call.op # "stop"
            /\ pcCaller' \notin {"error", "blocked"}
          => pcCaller' = "retry" /\ status' = "RETRY" /\ call' = call]_vars
    /\ [][status = "RETRY" /\ pcCaller' # "idle" => status' = "RETRY"]_vars
    /\ [][status = "RETRY" => pcCaller' # "retry" \/ pcCaller = "retry"]_vars
    /\ [][pcCaller = "error" /\ status = "RETRY" /\ pcCaller' \notin {"error", "blocked"}
          => pcCaller' = "idle" /\ status' = "OK"]_vars

\* A call that failed after an earlier call had failed and been tried again
\* is about to be tried again itself
C21_Witness ==
    /\ pcCaller = "retry"
    /\ status = "RETRY"
    /\ nFaults = 2
    /\ nCalls + nPaths + nFrames >= 1

\* The second try failed as well
C21_WitnessSecondFailure == pcCaller = "error" /\ status = "RETRY" /\ nFaults = 2

\* The step in which a StopRecord whose two submissions threw returns, the
\* process being alive after it
FailedStopReturns ==
    pcCaller = "error" /\ status = "CLEAN" /\ pcCaller' = "idle" /\ pcW' # "crashed"

\* C22: when a StopRecord returns whose first try and second try both failed
\* to queue the stop-session task, no session is open, the task queue is empty
\* and no session becomes open from a task submitted before the call: no
\* start-session task popped before is still being executed.
C22_FailedStopLeavesNoSession ==
    [][FailedStopReturns =>
          /\ session' = NoSession
          /\ openFiles' = {}
          /\ taskQueue' = <<>>
          /\ ~(pcW' = "exec" /\ current'.kind = "start")]_vars

\* What C22 says of the session and the queue at the moment of the return
C22_FailedStopCleans ==
    [][FailedStopReturns =>
          session' = NoSession /\ openFiles' = {} /\ taskQueue' = <<>>]_vars

\* The step pushes a task of the given kind
Pushes(kind) ==
    /\ nPushed' = nPushed + 1
    /\ taskQueue'[Len(taskQueue')].kind = kind

\* The mode a start-session task asks for
RequestedMode(t) == IF t.highFPS THEN "HIGH_FPS" ELSE "LOW_FPS"

\* C23: mode changes are synchronous with the call.  The StartRecord step that
\* queues the start-session task sets the requested mode and the deadline to
\* the current time, and until the first due sample after it a SampleFrame
\* call finds at least one frame pending, whatever the worker has done; the
\* StopRecord step sets the mode to STOPPED; no other step changes the mode;
\* a handle created while the mode is STOPPED has no pending video frame.
C23_ModeFollowsCalls ==
    /\ [][Pushes("start") =>
            /\ recordMode' = RequestedMode(taskQueue'[Len(taskQueue')])
            /\ nextFrame' = now']_vars
    /\ [][Pushes("stop") => recordMode' = "STOPPED"]_vars
    /\ [][recordMode' # recordMode => Pushes("start") \/ Pushes("stop")]_vars
    /\ [](pcCaller = "idle" /\ recordMode # "STOPPED" /\ lastDue = -1 =>
            /\ PendingFrames(recordMode, now, nextFrame) >= 1
            /\ Alive => ENABLED (SampleFrameRequest /\ nFrames' = nFrames + 1
                          /\ frames'[nFrames'].videoPendingFrames >= 1))
    /\ [][nFrames' = nFrames + 1 =>
            /\ recordMode = "STOPPED" => frames'[nFrames'].videoPendingFrames = 0
            /\ recordMode # "STOPPED" /\ lastDue = -1
                  => frames'[nFrames'].videoPendingFrames >= 1]_vars
    /\ [][recordMode = "STOPPED" /\ screenshotPaths = <<>> => nFrames' = nFrames]_vars

\* A sample taken after StartRecord has a pending frame while the start-session
\* task is still in the queue
C23_Witness ==
    /\ recordMode # "STOPPED"
    /\ \E i \in 1..Len(taskQueue) : taskQueue[i].kind = "start"
    /\ \E f \in 1..FrameSlots : frames[f].st = "held" /\ frames[f].videoPendingFrames >= 1

\* The mode is STOPPED while the stop-session task of a recording in progress
\* is still in the queue
C23_WitnessStop ==
    /\ recordMode = "STOPPED"
    /\ session.videoFile # 0
    /\ \E i \in 1..Len(taskQueue) : taskQueue[i].kind = "stop"

\* A video sample is due or a screenshot path is pending
DueOrPending ==
    (recordMode # "STOPPED" /\ now >= nextFrame) \/ screenshotPaths # <<>>

\* The request callback is invoked in this step: it returns a handle, or throws
CallbackInvoked ==
    \/ nFrames' = nFrames + 1
    \/ pcCaller \in {"idle", "retry"} /\ pcCaller' = "error" /\ call'.op = "sample"

\* A SampleFrame attempt starting here with nothing due and nothing pending
\* invokes no callback and changes neither deadline nor queue; one starting
\* with a sample due or a path pending cannot but invoke the callback, which
\* gets the pending count and the paths.
AttemptFollowsDue ==
    Alive /\ Invoked("sample") =>
        IF DueOrPending
        THEN /\ ENABLED (SampleFrameRequest /\ nFrames' = nFrames + 1 /\ pcCaller' = "push"
                          /\ frames'[nFrames'].screenshotPaths = screenshotPaths
                          /\ frames'[nFrames'].videoPendingFrames
                                = PendingFrames(recordMode, now, nextFrame))
             /\ ~ENABLED (SampleFrameRequest /\ nFrames' = nFrames)
        ELSE /\ ~ENABLED (SampleFrameRequest
                           /\ (nFrames' # nFrames \/ nextFrame' # nextFrame
                               \/ taskQueue' # taskQueue \/ pcCaller' = "push"))
             /\ ~ENABLED SampleFrameCallbackThrows

\* A SampleFrame call returns in this step
SampleFrameReturns ==
    /\ pcCaller' = "idle"
    /\ pcCaller = "push" \/ (pcCaller \in {"error", "retry"} /\ call.op = "sample")

NullFrameRuns == FrameTaskRuns /\ lastExec'.warned

\* C25: a frame task whose GetFrameData() returns a null pixel pointer is
\* skipped without any fatal effect: nothing is encoded, the session, open or
\* not, stays as it is, and the worker goes on to the next task.
C25_NullFrameSkipped ==
    /\ [][NullFrameRuns =>
            /\ lastExec'.encoded = 0
            /\ ~lastExec'.io
            /\ tally' = tally
            /\ session' = session
            /\ openFiles' = openFiles
            /\ frames'[current.frame].videoPendingFrames
                  = frames[current.frame].videoPendingFrames
            /\ taskQueue' = taskQueue
            /\ pcW' = "loop"]_vars
    /\ [](pcW = "loop" => ENABLED WorkerLoop)

\* A frame with a pending video frame and no pixels was skipped while a
\* session was open, and the session is still open
C25_Witness ==
    /\ lastExec.kind = "frame"
    /\ lastExec.warned
    /\ lastExec.hadSession
    /\ session.videoFile # 0
    /\ openFiles # {}
    /\ \E f \in 1..FrameSlots : frames[f].st = "done" /\ frames[f].videoPendingFrames > 0

\* The worker executes a frame task whose GetFrameData() gives pixels
PixelFrameRuns == FrameTaskRuns /\ ~lastExec'.warned

\* Steps q holds no save after a step of the video part
SavesFirst(q) == \A i, j \in 1..Len(q) : (i < j /\ q[j] = "save") => q[i] = "save"

\* C26: within one frame task every attached screenshot is attempted before
\* any video encoding; a save that fails prevents neither the saves after it
\* nor the video part of that task, and the session changes only when a video
\* step fails.
C26_ScreenshotsBeforeVideo ==
    [][PixelFrameRuns =>
          LET fr == frames[current.frame]
              e == lastExec'
          IN  /\ e.attempted = fr.screenshotPaths
              /\ frames'[current.frame].screenshotPaths = <<>>
              /\ SavesFirst(e.steps)
              /\ Len(SelectSeq(e.steps, LAMBDA x : x = "save")) = Len(fr.screenshotPaths)
              /\ Range(e.saved) \subseteq saved'
              /\ saved' \ saved \subseteq Range(e.saved)
              /\ e.io = (fr.videoPendingFrames # 0 /\ session.videoFile # 0)
              /\ (e.io /\ e.fail = "none") => e.encoded = fr.videoPendingFrames
              /\ e.fail = "none" => (session' = session /\ openFiles' = openFiles)
      ]_vars

\* The first of two screenshots of a frame failed, the second was saved, the
\* frame was encoded and the session is still open
C26_Witness ==
    /\ lastExec.kind = "frame"
    /\ Len(lastExec.attempted) = 2
    /\ lastExec.saved = <<lastExec.attempted[2]>>
    /\ lastExec.encoded = 1
    /\ lastExec.fail = "none"
    /\ lastExec.steps = <<"save", "save", "convert", "encode">>
    /\ session.videoFile # 0
    /\ openFiles # {}

\* Every save of a frame failed and a step of its video part too
C26_WitnessVideoFails ==
    /\ lastExec.kind = "frame"
    /\ Len(lastExec.attempted) = 2
    /\ lastExec.saved = <<>>
    /\ lastExec.fail = "encode"
    /\ session.videoFile = 0

\* A SampleFrame call is in Error() or about to make its second try
SampleFailed == call.op = "sample" /\ pcCaller \in {"error", "retry"}

\* C28: when an attempt of SampleFrame fails after pacing was computed, the
\* deadline is put back to its value before the attempt; the second try
\* computes its pending count from that deadline; and when the second try fails
\* as well, SampleFrame returns with the deadline it was entered with and
\* without a task pushed.
C28_DeadlineRestored ==
    /\ [](SampleFailed =>
             /\ nextFrame = sampleEntry.nextFrame
             /\ nPushed = sampleEntry.nPushed)
    /\ [][(pcCaller = "push" /\ pcCaller' = "error") =>
             /\ nextFrame' = nextFrameBackup
             /\ nextFrameBackup = sampleEntry.nextFrame]_vars
    /\ [][(SampleFailed /\ pcCaller = "retry" /\ pcCaller' = "push") =>
             /\ frames'[nFrames'].videoPendingFrames
                   = PendingFrames(recordMode, now, sampleEntry.nextFrame)
             /\ nextFrame' = NextFrameAfter(recordMode, now, sampleEntry.nextFrame)]_vars
    /\ [][(SampleFailed /\ status = "RETRY" /\ pcCaller = "error" /\ pcCaller' = "idle") =>
             /\ nextFrame' = sampleEntry.nextFrame
             /\ nPushed' = sampleEntry.nPushed]_vars

\* The second try of a due sample failed after the first, and the deadline
\* that pacing had advanced is the one of the call's entry
C28_Witness ==
    /\ SampleFailed
    /\ pcCaller = "error"
    /\ status = "RETRY"
    /\ recordMode # "STOPPED"
    /\ now >= nextFrame
    /\ NextFrameAfter(recordMode, now, nextFrame) > nextFrame
    /\ nextFrame = sampleEntry.nextFrame

\* The second try of a sample whose first try threw after the callback holds
\* a handle with the pending count of the call's deadline at the later time
C28_WitnessRetry ==
    /\ pcCaller = "push"
    /\ status = "RETRY"
    /\ nFrames = 2
    /\ frames[1].st = "dropped"
    /\ frames[1].videoPendingFrames = 1
    /\ frames[2].videoPendingFrames = 2
    /\ nextFrameBackup = sampleEntry.nextFrame
    /\ nextFrame > sampleEntry.nextFrame

\* The worker pops a task
TaskPopped == pcW # "exec" /\ pcW' = "exec"

\* The worker executes the task of a frame with pending duplicates that was
\* sampled after a StartRecord call returned and before the next StartRecord
\* or StopRecord call
SessionFrameRuns ==
    /\ FrameTaskRuns
    /\ frames[current.frame].videoPendingFrames # 0
    /\ frames[current.frame].sampledFor # 0

\* C27: frames go to the session they were sampled for.  Tasks are popped in
\* the order of their calls, so the task of a frame sampled after StartRecord
\* call S returned and before the next StartRecord or StopRecord call runs
\* after S's start-session task and before the task of that next call; the
\* session open while it runs, if any, is the one S's task opened, and what it
\* encodes goes there.
C27_FramesGoToTheirSession ==
    /\ [][TaskPopped => \A i \in 1..Len(taskQueue') : taskQueue'[i].id > current'.id]_vars
    /\ [][SessionFrameRuns =>
            LET S == frames[current.frame].sampledFor
            IN  /\ S < current.id
                /\ \A i \in 1..Len(taskQueue) : taskQueue[i].id > current.id
                /\ session.videoFile \in {0, S}
                /\ session'.videoFile \in {0, S}
                /\ lastExec'.encoded > 0 => session.videoFile = S]_vars

\* A frame sampled in a recording was encoded into its session while the task
\* of the call that followed was queued behind it
C27_Witness ==
    /\ lastExec.kind = "frame"
    /\ lastExec.encoded > 0
    /\ session.videoFile # 0
    /\ taskQueue # <<>>
    /\ taskQueue[1].kind \in {"start", "stop"}
    /\ \E f \in 1..FrameSlots :
          /\ frames[f].st = "done"
          /\ frames[f].sampledFor = session.videoFile

\* A frame sampled in the second of two recordings was encoded into the second
\* session
C27_WitnessSecondSession ==
    /\ lastExec.kind = "frame"
    /\ lastExec.encoded > 0
    /\ session.videoFile > 1
    /\ \E f \in 1..FrameSlots :
          /\ frames[f].st = "done"
          /\ frames[f].sampledFor = session.videoFile

====
